---- MODULE Spec2Model ----
(***************************************************************************)
(* revbro (moul/revbro): lists the top-level declarations of Go source     *)
(* files, one line per declaration.  This module models main.go lines      *)
(* 1-819 (run, processPath, processFile and the formatters they call).     *)
(* Strings are sequences of one-character strings, so that prefixes,       *)
(* suffixes, slices and the byte order of Go's string comparison are       *)
(* computed and not assumed.                                               *)
(***************************************************************************)
EXTENDS Integers, Sequences, FiniteSets, TLC

(***************************************************************************)
(* Bounds of the model (not program constants).                            *)
(***************************************************************************)
MaxDecls == 2
MaxArgs == 2
MaxValueLength == 4
PosStride == 4
MaxRenderDecls == 1

\* The default of the -max-length flag (main.go 50).
DefaultMaxValueLength == 30

(***************************************************************************)
(* Characters and strings.                                                 *)
(***************************************************************************)
\* The characters the model uses, in increasing byte order (Go compares
\* strings bytewise).
Alphabet ==
  << " ", "\"", "(", ")", "*", "+", ",", "-", ".", "/",
     "0", "1", "2", "3", "4", "5", "6", "7", "8", "9", ":", ";", "=",
     "A", "B", "C", "D", "E", "F", "G", "H", "I", "J", "K", "L", "M",
     "N", "O", "P", "Q", "R", "S", "T", "U", "V", "W", "X", "Y", "Z",
     "[", "]", "_",
     "a", "b", "c", "d", "e", "f", "g", "h", "i", "j", "k", "l", "m",
     "n", "o", "p", "q", "r", "s", "t", "u", "v", "w", "x", "y", "z",
     "{", "}" >>

UpperChars ==
  << "A", "B", "C", "D", "E", "F", "G", "H", "I", "J", "K", "L", "M",
     "N", "O", "P", "Q", "R", "S", "T", "U", "V", "W", "X", "Y", "Z" >>

LowerChars ==
  << "a", "b", "c", "d", "e", "f", "g", "h", "i", "j", "k", "l", "m",
     "n", "o", "p", "q", "r", "s", "t", "u", "v", "w", "x", "y", "z" >>

\* The rank of a character in byte order.
Code(c) == CHOOSE i \in 1..Len(Alphabet) : Alphabet[i] = c

IsUpper(c) == \E i \in 1..Len(UpperChars) : UpperChars[i] = c

\* strings.ToLower, one character.
LowerChar(c) ==
  IF IsUpper(c)
    THEN LowerChars[CHOOSE i \in 1..Len(UpperChars) : UpperChars[i] = c]
    ELSE c

\* strings.ToLower
ToLower(s) == [i \in 1..Len(s) |-> LowerChar(s[i])]

\* strings.HasPrefix
HasPrefix(s, p) == Len(p) <= Len(s) /\ SubSeq(s, 1, Len(p)) = p

\* strings.HasSuffix
HasSuffix(s, p) ==
  Len(p) <= Len(s) /\ SubSeq(s, Len(s) - Len(p) + 1, Len(s)) = p

\* Go's s < t on strings: bytewise lexicographic order.
RECURSIVE StrLess(_, _)
StrLess(s, t) ==
  IF t = << >> THEN FALSE
  ELSE IF s = << >> THEN TRUE
  ELSE IF s[1] # t[1] THEN Code(s[1]) < Code(t[1])
  ELSE StrLess(Tail(s), Tail(t))

\* strings.Join
RECURSIVE Join(_, _)
Join(parts, sep) ==
  IF parts = << >> THEN << >>
  ELSE IF Len(parts) = 1 THEN parts[1]
  ELSE parts[1] \o sep \o Join(Tail(parts), sep)

\* strings.Split(s, sep) for a one-character separator: always at least one
\* part, the empty string for the empty input.
RECURSIVE SplitAcc(_, _, _)
SplitAcc(s, sep, cur) ==
  IF s = << >> THEN << cur >>
  ELSE IF s[1] = sep THEN << cur >> \o SplitAcc(Tail(s), sep, << >>)
  ELSE SplitAcc(Tail(s), sep, Append(cur, s[1]))

Split(s, sep) == SplitAcc(s, sep, << >>)

\* strings.TrimSpace (the model's only white space is the blank).
RECURSIVE TrimLeft(_)
TrimLeft(s) ==
  IF s # << >> /\ s[1] = " " THEN TrimLeft(Tail(s)) ELSE s

RECURSIVE TrimRight(_)
TrimRight(s) ==
  IF s # << >> /\ s[Len(s)] = " "
    THEN TrimRight(SubSeq(s, 1, Len(s) - 1))
    ELSE s

TrimSpace(s) == TrimRight(TrimLeft(s))

\* strings.ReplaceAll(s, "  ", " "): left to right, non-overlapping.
RECURSIVE CollapseDouble(_)
CollapseDouble(s) ==
  IF Len(s) < 2 THEN s
  ELSE IF s[1] = " " /\ s[2] = " "
    THEN << " " >> \o CollapseDouble(SubSeq(s, 3, Len(s)))
  ELSE << s[1] >> \o CollapseDouble(Tail(s))

\* strings.Contains
Contains(s, p) ==
  \E i \in 1..(Len(s) - Len(p) + 1) : SubSeq(s, i, i + Len(p) - 1) = p

\* fmt.Sprintf("%d", n) for n >= 0.
Digits == << "0", "1", "2", "3", "4", "5", "6", "7", "8", "9" >>

RECURSIVE Itoa(_)
Itoa(n) ==
  IF n < 10 THEN << Digits[n + 1] >>
  ELSE Itoa(n \div 10) \o << Digits[(n % 10) + 1] >>

(***************************************************************************)
(* String constants of the program.                                        *)
(***************************************************************************)
sVar == << "v", "a", "r", " " >>
sFunc == << "f", "u", "n", "c", " " >>
sType == << "t", "y", "p", "e", " " >>
sEq == << " ", "=", " " >>
sEllipsis == << ".", ".", "." >>
sInt == << "i", "n", "t" >>
sFloat64 == << "f", "l", "o", "a", "t", "6", "4" >>
sString == << "s", "t", "r", "i", "n", "g" >>
sRune == << "r", "u", "n", "e" >>
sBool == << "b", "o", "o", "l" >>
sTrue == << "t", "r", "u", "e" >>
sFalse == << "f", "a", "l", "s", "e" >>
sIota == << "i", "o", "t", "a" >>
sStatus == << "S", "t", "a", "t", "u", "s" >>
sDay == << "D", "a", "y" >>
sSunday == << "S", "u", "n", "d", "a", "y" >>
sMonday == << "M", "o", "n", "d", "a", "y" >>
sTuesday == << "T", "u", "e", "s", "d", "a", "y" >>
sTime == << "t", "i", "m", "e" >>
sDuration == << "D", "u", "r", "a", "t", "i", "o", "n" >>
sTimeDuration == sTime \o << "." >> \o sDuration
sStructOpen == << "s", "t", "r", "u", "c", "t", " ", "{", " " >>
sInterfaceOpen ==
  << "i", "n", "t", "e", "r", "f", "a", "c", "e", " ", "{", " " >>
sClose == << " ", "}" >>
sSemi == << ";", " " >>
sComma == << ",", " " >>
sIotaValue == sEq \o sIota

\* The flag defaults of run (main.go 48-52).
DefaultExt == << ".", "g", "o" >>
DefaultExclude == << "_", "t", "e", "s", "t", ".", "g", "o" >>

(***************************************************************************)
(* Syntax trees (go/ast), as records tagged by k.                          *)
(***************************************************************************)
Nil == [k |-> "nil"]
Ident(n) == [k |-> "Ident", name |-> n]
BasicLit(kind, v) == [k |-> "BasicLit", kind |-> kind, value |-> v]
BinaryExpr(x, op, y) == [k |-> "BinaryExpr", x |-> x, op |-> op, y |-> y]
SelectorExpr(x, sel) == [k |-> "SelectorExpr", x |-> x, sel |-> sel]
StarExpr(x) == [k |-> "StarExpr", x |-> x]
ParenExpr(x) == [k |-> "ParenExpr", x |-> x]
Field(names, t) == [names |-> names, type |-> t]
FuncType(params, results) ==
  [k |-> "FuncType", params |-> params, results |-> results]
MapType(key, value) == [k |-> "MapType", key |-> key, value |-> value]
ArrayType(elt) == [k |-> "ArrayType", elt |-> elt]
CompositeLit(t, elts) == [k |-> "CompositeLit", type |-> t, elts |-> elts]
KeyValueExpr(key, value) ==
  [k |-> "KeyValueExpr", key |-> key, value |-> value]
CallExpr(fun, params) == [k |-> "CallExpr", fun |-> fun, args |-> params]
StructType(fields) == [k |-> "StructType", fields |-> fields]
InterfaceType(methods) == [k |-> "InterfaceType", methods |-> methods]
ValueSpec(names, t, values) ==
  [k |-> "ValueSpec", pos |-> 0, names |-> names, type |-> t,
   values |-> values]
TypeSpec(name, t) == [k |-> "TypeSpec", pos |-> 0, name |-> name, type |-> t]
GenDecl(tok, specs) == [k |-> "GenDecl", tok |-> tok, specs |-> specs]
\* A func declaration; body holds the declarations its body contains
\* (ast.DeclStmt), none unless WithBody sets them.
FuncDecl(name, recv, ft) ==
  [k |-> "FuncDecl", pos |-> 0, name |-> name, recv |-> recv, type |-> ft,
   body |-> << >>]
WithBody(d, body) == [d EXCEPT !.body = body]

\* ast.IsExported: the first character of the name is upper case.
IsExported(name) == name # << >> /\ IsUpper(name[1])

\* types.ExprString, for the expression kinds of the model's files (go/types
\* exprstring.go); struct fields are written "a, b T" and joined by "; ".
\* What types.ExprString writes for a node it has no case for.
sAstKeyValue ==
  << "(", "a", "s", "t", ":", " ", "*", "a", "s", "t", ".", "K", "e", "y",
     "V", "a", "l", "u", "e", "E", "x", "p", "r", ")" >>
sMapOpen == << "m", "a", "p", "[" >>

\* The expressions directly below a node, in the order types.ExprString
\* writes them.
Kids(e) ==
  CASE e.k \in { "SelectorExpr", "StarExpr", "ParenExpr" } -> << e.x >>
    [] e.k = "BinaryExpr" -> << e.x, e.y >>
    [] e.k = "StructType" -> [i \in 1..Len(e.fields) |-> e.fields[i].type]
    [] e.k = "InterfaceType" ->
         [i \in 1..Len(e.methods) |-> e.methods[i].type]
    [] e.k = "MapType" -> << e.key, e.value >>
    [] e.k = "ArrayType" -> << e.elt >>
    [] e.k = "CompositeLit" -> << e.type >>
    [] e.k = "CallExpr" -> << e.fun >> \o e.args
    [] OTHER -> << >>

\* A field list as types.ExprString writes it, sub[i] being the text of the
\* type of field i: the names of a field "a, b T", the fields joined by "; ".
ExprFieldList(fields, sub) ==
  Join([i \in 1..Len(fields) |->
          IF fields[i].names = << >> THEN sub[i]
          ELSE Join(fields[i].names, sComma) \o << " " >> \o sub[i]], sSemi)

\* What types.ExprString writes for node e, sub[i] being the text of the
\* i-th expression below it (go/types exprstring.go).  A composite literal is
\* written as its type and braces, with the one character U+2026 between
\* them when it has elements; a key-value element has no case of its own.
WriteExpr(e, sub) ==
  CASE e.k = "Ident" -> e.name
    [] e.k = "BasicLit" -> e.value
    [] e.k = "BinaryExpr" ->
         sub[1] \o << " " >> \o e.op \o << " " >> \o sub[2]
    [] e.k = "SelectorExpr" -> sub[1] \o << "." >> \o e.sel
    [] e.k = "StarExpr" -> << "*" >> \o sub[1]
    [] e.k = "ParenExpr" -> << "(" >> \o sub[1] \o << ")" >>
    [] e.k = "StructType" ->
         << "s", "t", "r", "u", "c", "t", "{" >>
           \o ExprFieldList(e.fields, sub) \o << "}" >>
    [] e.k = "InterfaceType" ->
         << "i", "n", "t", "e", "r", "f", "a", "c", "e", "{" >>
           \o ExprFieldList(e.methods, sub) \o << "}" >>
    [] e.k = "MapType" -> sMapOpen \o sub[1] \o << "]" >> \o sub[2]
    [] e.k = "ArrayType" -> << "[", "]" >> \o sub[1]
    [] e.k = "CompositeLit" ->
         sub[1] \o << "{" >>
           \o (IF Len(e.elts) > 0 THEN << "U+2026" >> ELSE << >>)
           \o << "}" >>
    [] e.k = "CallExpr" ->
         sub[1] \o << "(" >> \o Join(Tail(sub), sComma) \o << ")" >>
    [] e.k = "KeyValueExpr" -> sAstKeyValue
    [] OTHER -> << >>

\* types.ExprString.
RECURSIVE ExprString(_)
ExprString(e) ==
  WriteExpr(e, [i \in 1..Len(Kids(e)) |-> ExprString(Kids(e)[i])])

(***************************************************************************)
(* Formatters (main.go 244-351, 384-434, 643-818).                         *)
(***************************************************************************)
\* The outcome of a Go run-time panic (slice bounds out of range).
Panic == << "<panic>" >>

\* formatField and formatFuncType (main.go 245-305).
RECURSIVE formatFuncType(_)
formatField(field) ==
  IF field.names = << >> THEN ExprString(field.type)
  ELSE field.names[1] \o
         (IF field.type.k = "FuncType" THEN formatFuncType(field.type)
          ELSE << " " >> \o ExprString(field.type))

\* The result types of formatFuncType (main.go 285-292): "(*T)" becomes "*T".
unparenPointer(typeStr) ==
  IF HasPrefix(typeStr, << "(", "*" >>)
    THEN << "*" >> \o SubSeq(typeStr, 3, Len(typeStr) - 1)
    ELSE typeStr

resultType(result) == unparenPointer(ExprString(result.type))

\* The text of formatFuncType for the formatted parameters and result types
\* (main.go 270-304).
writeFuncType(params, results) ==
  << "(" >> \o Join(params, sComma) \o << ")" >> \o
    (IF Len(results) > 0
       THEN << " " >> \o
              (IF Len(results) > 1 /\ ~HasPrefix(results[1], << "(" >>)
                 THEN << "(" >> \o Join(results, sComma) \o << ")" >>
                 ELSE Join(results, sComma))
       ELSE << >>)

formatFuncType(ft) ==
  writeFuncType([i \in 1..Len(ft.params) |-> formatField(ft.params[i])],
                [i \in 1..Len(ft.results) |-> resultType(ft.results[i])])

\* formatFuncDecl (main.go 800-818): the receiver is never written.
formatFuncDecl(decl) == sFunc \o decl.name \o formatFuncType(decl.type)

\* The elements formatValue writes for a map literal (main.go 326-336): each
\* element through types.ExprString, or a fixed text when there is none.
sNoElements ==
  << "t", "i", "m", "e", "o", "u", "t", ":", " ", "3", "0", ",", " ",
     "r", "e", "t", "r", "i", "e", "s", ":", " ", "t", "r", "u", "e" >>

\* formatValue (main.go 308-351).  A string literal longer than maxLen is cut
\* to val[:maxLen-3] + "..."; the slice panics when maxLen-3 is negative.  A
\* map literal is written as map[K]V{elements}.
truncate(val, maxLen) ==
  IF Len(val) > maxLen
    THEN IF maxLen - 3 < 0 THEN Panic
         ELSE SubSeq(val, 1, maxLen - 3) \o sEllipsis
    ELSE val

formatValue(expr, maxLen) ==
  IF expr.k = "BasicLit" /\ expr.kind = "STRING"
    THEN truncate(expr.value, maxLen)
  ELSE IF expr.k = "CompositeLit" /\ expr.type.k = "MapType"
    THEN sMapOpen \o ExprString(expr.type.key) \o << "]" >>
           \o ExprString(expr.type.value) \o << "{" >>
           \o (IF Len(expr.elts) > 0
                 THEN Join([i \in 1..Len(expr.elts) |->
                              ExprString(expr.elts[i])], sComma)
                 ELSE sNoElements)
           \o << "}" >>
  ELSE ExprString(expr)

\* inferType (main.go 385-434).
RECURSIVE inferType(_)
inferType(expr) ==
  CASE expr.k = "BasicLit" ->
         (CASE expr.kind = "INT" -> sInt
            [] expr.kind = "FLOAT" -> sFloat64
            [] expr.kind = "STRING" -> sString
            [] expr.kind = "CHAR" -> sRune
            [] OTHER -> << >>)
    [] expr.k = "Ident" ->
         IF expr.name = sTrue \/ expr.name = sFalse THEN sBool
         ELSE IF expr.name = sIota THEN sStatus
         ELSE expr.name
    [] expr.k = "BinaryExpr" ->
         IF /\ expr.op = << "*" >>
            /\ expr.x.k = "SelectorExpr"
            /\ expr.x.x.k = "Ident"
            /\ expr.x.x.name = sTime
           THEN sTimeDuration
           ELSE inferType(expr.x)
    [] expr.k = "SelectorExpr" ->
         IF expr.x.k = "Ident"
           THEN IF expr.x.name = sTime /\ expr.sel = sDuration
                  THEN sTimeDuration
                  ELSE expr.x.name \o << "." >> \o expr.sel
           ELSE << >>
    [] expr.k = "CallExpr" ->
         IF /\ expr.fun.k = "Ident"
            /\ expr.fun.name = << "m", "a", "k", "e" >>
            /\ Len(expr.args) > 0
           THEN ExprString(expr.args[1])
           ELSE << >>
    [] expr.k = "CompositeLit" ->
         IF expr.type.k # "nil" THEN ExprString(expr.type) ELSE << >>
    [] OTHER -> << >>

\* The members of an interface, as formatType and formatTypeSpec write them
\* (main.go 673-684, 722-731): an embedded interface by its type, a method
\* by its first name and signature.
formatMethods(list) ==
  [i \in 1..Len(list) |->
     IF list[i].names = << >> THEN ExprString(list[i].type)
     ELSE list[i].names[1] \o formatFuncType(list[i].type)]

\* formatType (main.go 696-740): a field's type, one level of struct or
\* interface flattened; only the first name of a field is written.
formatType(expr) ==
  CASE expr.k = "StructType" ->
         sStructOpen
           \o Join([i \in 1..Len(expr.fields) |->
                      IF expr.fields[i].names = << >>
                        THEN ExprString(expr.fields[i].type)
                        ELSE expr.fields[i].names[1] \o << " " >>
                               \o ExprString(expr.fields[i].type)], sSemi)
           \o sClose
    [] expr.k = "InterfaceType" ->
         sInterfaceOpen \o Join(formatMethods(expr.methods), sSemi) \o sClose
    [] OTHER -> ExprString(expr)

\* formatTypeSpec (main.go 643-694).
formatTypeSpec(spec) ==
  LET t == spec.type
      body ==
        CASE t.k = "StructType" ->
               sStructOpen
                 \o Join([i \in 1..Len(t.fields) |->
                            IF t.fields[i].names = << >>
                              THEN ExprString(t.fields[i].type)
                              ELSE t.fields[i].names[1] \o << " " >>
                                     \o formatType(t.fields[i].type)], sSemi)
                 \o sClose
          [] t.k = "InterfaceType" ->
               sInterfaceOpen \o Join(formatMethods(t.methods), sSemi)
                 \o sClose
          [] OTHER -> ExprString(t)
  IN  CollapseDouble(sType \o spec.name \o << " " >> \o body)

\* The type of the i-th name of a value spec: the explicit type, else the
\* type inferred from its own value (main.go 750-757).
declaredType(spec, i) ==
  IF spec.type.k # "nil" THEN ExprString(spec.type)
  ELSE IF i <= Len(spec.values) THEN inferType(spec.values[i])
  ELSE << >>

\* The special cases by name (main.go 759-764).
specialType(name, typeStr) ==
  IF HasPrefix(name, sStatus) THEN sStatus
  ELSE IF name = sMonday \/ name = sTuesday \/ name = sSunday THEN sDay
  ELSE typeStr

\* A value that is a product with a selector of package time
\* (main.go 766-775).
isTimeProduct(spec, i) ==
  /\ i <= Len(spec.values)
  /\ spec.values[i].k = "BinaryExpr"
  /\ spec.values[i].x.k = "SelectorExpr"
  /\ spec.values[i].x.x.k = "Ident"
  /\ spec.values[i].x.x.name = sTime

\* "var name" and the type, if there is one (main.go 746-748, 777-780).
declHead(name, typeStr) ==
  sVar \o name \o (IF typeStr # << >> THEN << " " >> \o typeStr ELSE << >>)

\* The value part (main.go 782-792): the formatted value when the name has
\* one; for a const without a value " = iota" or " = <index+1>".
withValue(head, name, tok, i, hasValue, value) ==
  IF hasValue
    THEN IF value = Panic THEN Panic ELSE head \o sEq \o value
    ELSE IF tok = "const"
      THEN IF \/ HasPrefix(name, sStatus)
              \/ name = sSunday \/ name = sMonday \/ name = sTuesday
             THEN head \o sIotaValue
             ELSE head \o sEq \o Itoa(i)
      ELSE head

\* One declaration of formatValueSpec (main.go 745-794), for the i-th name.
formatValueName(spec, tok, maxLen, i) ==
  withValue(declHead(spec.names[i],
                     IF isTimeProduct(spec, i) THEN sTimeDuration
                     ELSE specialType(spec.names[i], declaredType(spec, i))),
            spec.names[i], tok, i, i <= Len(spec.values),
            IF i <= Len(spec.values)
              THEN formatValue(spec.values[i], maxLen)
              ELSE << >>)

\* A panic in formatValue ends the call.
panicOr(decls) ==
  IF \E i \in 1..Len(decls) : decls[i] = Panic THEN Panic ELSE decls

\* formatValueSpec (main.go 742-798): one declaration per name, in order.
formatValueSpec(spec, tok, maxLen) ==
  panicOr([i \in 1..Len(spec.names) |-> formatValueName(spec, tok, maxLen, i)])

(***************************************************************************)
(* Paths (path/filepath) and the file system.                              *)
(***************************************************************************)
NonEmpty(s) == s # << >>

\* The components of a slash-separated path.
PathParts(p) == SelectSeq(Split(p, "/"), NonEmpty)

\* The length of the common prefix of two component lists.
RECURSIVE CommonLen(_, _)
CommonLen(b, t) ==
  IF b = << >> \/ t = << >> \/ b[1] # t[1] THEN 0
  ELSE 1 + CommonLen(Tail(b), Tail(t))

\* filepath.Rel(base, targ) for two absolute paths: ".." for every component
\* of base after the common prefix, then the rest of targ; "." when equal.
Rel(base, targ) ==
  LET b == PathParts(base)
      t == PathParts(targ)
      n == CommonLen(b, t)
      parts == [i \in 1..(Len(b) - n) |-> << ".", "." >>]
                 \o SubSeq(t, n + 1, Len(t))
  IN  IF parts = << >> THEN << "." >> ELSE Join(parts, << "/" >>)

\* filepath.Abs in working directory wd: an absolute path is kept, "." is
\* wd, a relative path is joined to wd.
Abs(p, wd) ==
  IF p = << "." >> THEN wd
  ELSE IF HasPrefix(p, << "/" >>) THEN p
  ELSE wd \o << "/" >> \o p

\* The recursive marker of a path argument (main.go 67-72): "/..." is cut
\* off and an empty rest stands for ".".
sRecursive == << "/", ".", ".", "." >>

BasePath(path) ==
  IF HasSuffix(path, sRecursive)
    THEN IF Len(path) = 4 THEN << "." >>
         ELSE SubSeq(path, 1, Len(path) - 4)
    ELSE path

\* os.Stat: a path names a regular file of the file system, or a directory
\* (a proper prefix of a file's path), or nothing.
IsFile(files, path) == \E f \in files : f.path = path

IsDir(files, path) ==
  \E f \in files : HasPrefix(f.path, path \o << "/" >>)

FileAt(files, path) == CHOOSE f \in files : f.path = path

\* The extension and exclude lists of processPath (main.go 163-176).
Extensions(flag) ==
  LET parts == Split(flag, ",")
  IN  [i \in 1..Len(parts) |->
         IF HasPrefix(TrimSpace(parts[i]), << "." >>)
           THEN TrimSpace(parts[i])
           ELSE << "." >> \o TrimSpace(parts[i])]

Excludes(flag) ==
  LET parts == Split(flag, ",")
  IN  [i \in 1..Len(parts) |-> TrimSpace(parts[i])]

\* The suffix tests of processPath (main.go 187-204, 229-240).
HasAnySuffix(path, suffixes) ==
  \E i \in 1..Len(suffixes) : HasSuffix(ToLower(path), ToLower(suffixes[i]))

\* A walk that does not descend: only the files directly in the directory.
SelectedDirect(files, dir, extFlag, exclFlag) ==
  { f.path : f \in { g \in files :
                       /\ HasPrefix(g.path, dir \o << "/" >>)
                       /\ ~Contains(SubSeq(g.path, Len(dir) + 2, Len(g.path)),
                                    << "/" >>)
                       /\ ~HasAnySuffix(g.path, Excludes(exclFlag))
                       /\ HasAnySuffix(g.path, Extensions(extFlag)) } }

\* The files a directory walk selects (main.go 181-207): every regular file
\* below the directory that no exclude suffix matches and some extension
\* matches.  filepath.Walk descends into every subdirectory.
Selected(files, dir, extFlag, exclFlag) ==
  { f.path : f \in { g \in files :
                       /\ HasPrefix(g.path, dir \o << "/" >>)
                       /\ ~HasAnySuffix(g.path, Excludes(exclFlag))
                       /\ HasAnySuffix(g.path, Extensions(extFlag)) } }

\* All orders of a finite set, as sequences.
RECURSIVE Orders(_)
Orders(S) ==
  IF S = {} THEN { << >> }
  ELSE UNION { { << x >> \o p : p \in Orders(S \ {x}) } : x \in S }

\* A sort of the files with the comparison turned round.
RECURSIVE InsertFileDescending(_, _, _)
InsertFileDescending(sorted, f, wd) ==
  IF sorted = << >> THEN << f >>
  ELSE IF StrLess(Rel(wd, sorted[1]), Rel(wd, f)) THEN << f >> \o sorted
  ELSE << sorted[1] >> \o InsertFileDescending(Tail(sorted), f, wd)

\* sort.Slice(files, relI < relJ) (main.go 213-217).
RECURSIVE InsertFile(_, _, _)
InsertFile(sorted, f, wd) ==
  IF sorted = << >> THEN << f >>
  ELSE IF StrLess(Rel(wd, f), Rel(wd, sorted[1])) THEN << f >> \o sorted
  ELSE << sorted[1] >> \o InsertFile(Tail(sorted), f, wd)

\* The files left in the order of the walk.
NoSortFiles(list, wd) == list

RECURSIVE SortFiles(_, _)
SortFiles(list, wd) ==
  IF list = << >> THEN << >>
  ELSE InsertFile(SortFiles(Tail(list), wd), list[1], wd)

\* An insertion that compares nothing: the order of arrival is kept.
InsertPosLast(sorted, p) == Append(sorted, p)

\* sort.Slice(positions, positions[i] < positions[j]) (main.go 144-146).
RECURSIVE InsertPos(_, _)
InsertPos(sorted, p) ==
  IF sorted = << >> THEN << p >>
  ELSE IF p < sorted[1] THEN << p >> \o sorted
  ELSE << sorted[1] >> \o InsertPos(Tail(sorted), p)

\* The positions left in the order of the map iteration.
NoSortPositions(list) == list

RECURSIVE SortPositions(_)
SortPositions(list) ==
  IF list = << >> THEN << >>
  ELSE InsertPos(SortPositions(Tail(list)), list[1])

(***************************************************************************)
(* The source files the model runs on.                                     *)
(***************************************************************************)
StrLit(chars) == BasicLit("STRING", << "\"" >> \o chars \o << "\"" >>)
IntLit(chars) == BasicLit("INT", chars)
NoParams == FuncType(<< >>, << >>)

\* Declarations as the parser returns them, positions not yet set.
DeclShapes ==
  << \* func F(a string) int
     FuncDecl(<< "F" >>, FALSE,
              FuncType(<< Field(<< << "a" >> >>, Ident(sString)) >>,
                       << Field(<< >>, Ident(sInt)) >>)),
     \* func f()
     FuncDecl(<< "f" >>, FALSE, NoParams),
     \* type T struct{}
     GenDecl("type", << TypeSpec(<< "T" >>, StructType(<< >>)) >>),
     \* type t int
     GenDecl("type", << TypeSpec(<< "t" >>, Ident(sInt)) >>),
     \* var A = "visible"
     GenDecl("var",
             << ValueSpec(<< << "A" >> >>, Nil,
                          << StrLit(<< "v", "i", "s", "i", "b", "l", "e" >>) >>)
             >>),
     \* var a, B = 1, 2
     GenDecl("var",
             << ValueSpec(<< << "a" >>, << "B" >> >>, Nil,
                          << IntLit(<< "1" >>), IntLit(<< "2" >>) >>) >>),
     \* var X, y string
     GenDecl("var",
             << ValueSpec(<< << "X" >>, << "y" >> >>, Ident(sString), << >>)
             >>),
     \* const ( C = 1; d = "hi" )
     GenDecl("const",
             << ValueSpec(<< << "C" >> >>, Nil, << IntLit(<< "1" >>) >>),
                ValueSpec(<< << "d" >> >>, Nil, << StrLit(<< "h", "i" >>) >>)
             >>) >>

\* Names and literals of the declarations below.
sError == << "e", "r", "r", "o", "r" >>
sColor == << "C", "o", "l", "o", "r" >>
sRequest == << "R", "e", "q", "u", "e", "s", "t" >>
sResponse == << "R", "e", "s", "p", "o", "n", "s", "e" >>
sStatusOK == sStatus \o << "O", "K" >>
FloatLit(chars) == BasicLit("FLOAT", chars)
CharLit(chars) == BasicLit("CHAR", << "'" >> \o chars \o << "'" >>)
MapStringInt == MapType(Ident(sString), Ident(sInt))
sOuter == << "O", "u", "t", "e", "r" >>
sInner == << "I", "n", "n", "e", "r" >>
sLocal == << "L", "o", "c", "a", "l" >>
sOther == << "o", "t", "h", "e", "r" >>

\* Declarations whose rendering is examined: literal constants, constant
\* groups, signatures, structs and map literals (the cases of TestProcessFile
\* and their neighbours).
RenderShapes ==
  << \* const ( First = 1; second = "two" )
     GenDecl("const",
             << ValueSpec(<< << "F", "i", "r", "s", "t" >> >>, Nil,
                          << IntLit(<< "1" >>) >>),
                ValueSpec(<< << "s", "e", "c", "o", "n", "d" >> >>, Nil,
                          << StrLit(<< "t", "w", "o" >>) >>) >>),
     \* const ( Third = 3.14; fourth = true )
     GenDecl("const",
             << ValueSpec(<< << "T", "h", "i", "r", "d" >> >>, Nil,
                          << FloatLit(<< "3", ".", "1", "4" >>) >>),
                ValueSpec(<< << "f", "o", "u", "r", "t", "h" >> >>, Nil,
                          << Ident(sTrue) >>) >>),
     \* var R = 'x'
     GenDecl("var",
             << ValueSpec(<< << "R" >> >>, Nil, << CharLit(<< "x" >>) >>) >>),
     \* const StatusOK = 200
     GenDecl("const",
             << ValueSpec(<< sStatusOK >>, Nil,
                          << IntLit(<< "2", "0", "0" >>) >>) >>),
     \* const ( A Color = iota; B; C )
     GenDecl("const",
             << ValueSpec(<< << "A" >> >>, Ident(sColor), << Ident(sIota) >>),
                ValueSpec(<< << "B" >> >>, Nil, << >>),
                ValueSpec(<< << "C" >> >>, Nil, << >>) >>),
     \* const ( Sunday Day = iota; Monday; Tuesday )
     GenDecl("const",
             << ValueSpec(<< sSunday >>, Ident(sDay), << Ident(sIota) >>),
                ValueSpec(<< sMonday >>, Nil, << >>),
                ValueSpec(<< sTuesday >>, Nil, << >>) >>),
     \* func G() (a, b int)
     FuncDecl(<< "G" >>, FALSE,
              FuncType(<< >>,
                       << Field(<< << "a" >>, << "b" >> >>, Ident(sInt)) >>)),
     \* func H(c string, r *Request) (*Response, error)
     FuncDecl(<< "H" >>, FALSE,
              FuncType(<< Field(<< << "c" >> >>, Ident(sString)),
                          Field(<< << "r" >> >>, StarExpr(Ident(sRequest))) >>,
                       << Field(<< >>, StarExpr(Ident(sResponse))),
                          Field(<< >>, Ident(sError)) >>)),
     \* func K(a, b int) string
     FuncDecl(<< "K" >>, FALSE,
              FuncType(<< Field(<< << "a" >>, << "b" >> >>, Ident(sInt)) >>,
                       << Field(<< >>, Ident(sString)) >>)),
     \* func E() (err error)
     FuncDecl(<< "E" >>, FALSE,
              FuncType(<< >>,
                       << Field(<< << "e", "r", "r" >> >>, Ident(sError)) >>)),
     \* type S struct { a, b int; c string }
     GenDecl("type",
             << TypeSpec(<< "S" >>,
                         StructType(<< Field(<< << "a" >>, << "b" >> >>,
                                             Ident(sInt)),
                                       Field(<< << "c" >> >>, Ident(sString))
                                    >>)) >>),
     \* type Cfg struct { Name string; Port int; Opts map[string]int }
     GenDecl("type",
             << TypeSpec(<< "C", "f", "g" >>,
                         StructType(<< Field(<< << "N", "a", "m", "e" >> >>,
                                             Ident(sString)),
                                       Field(<< << "P", "o", "r", "t" >> >>,
                                             Ident(sInt)),
                                       Field(<< << "O", "p", "t", "s" >> >>,
                                             MapStringInt) >>)) >>),
     \* var Empty = map[string]int{}
     GenDecl("var",
             << ValueSpec(<< << "E", "m", "p", "t", "y" >> >>, Nil,
                          << CompositeLit(MapStringInt, << >>) >>) >>),
     \* var Pairs = map[string]int{"a": 1, "b": 2}
     GenDecl("var",
             << ValueSpec(<< << "P", "a", "i", "r", "s" >> >>, Nil,
                          << CompositeLit(MapStringInt,
                               << KeyValueExpr(StrLit(<< "a" >>),
                                               IntLit(<< "1" >>)),
                                  KeyValueExpr(StrLit(<< "b" >>),
                                               IntLit(<< "2" >>)) >>) >>) >>),
     \* func Outer() { var Inner = 1; type Local int }
     WithBody(FuncDecl(sOuter, FALSE, NoParams),
              << GenDecl("var",
                         << ValueSpec(<< sInner >>, Nil,
                                      << IntLit(<< "1" >>) >>) >>),
                 GenDecl("type", << TypeSpec(sLocal, Ident(sInt)) >>) >>),
     \* var StatusCode int = 200
     GenDecl("var",
             << ValueSpec(<< sStatus \o << "C", "o", "d", "e" >> >>,
                          Ident(sInt), << IntLit(<< "2", "0", "0" >>) >>) >>),
     \* var Alias = other
     GenDecl("var",
             << ValueSpec(<< << "A", "l", "i", "a", "s" >> >>, Nil,
                          << Ident(sOther) >>) >>),
     \* var Built = build()
     GenDecl("var",
             << ValueSpec(<< << "B", "u", "i", "l", "t" >> >>, Nil,
                          << CallExpr(Ident(<< "b", "u", "i", "l", "d" >>),
                                      << >>) >>) >>),
     \* const ( Red = iota; Green; Blue )
     GenDecl("const",
             << ValueSpec(<< << "R", "e", "d" >> >>, Nil, << Ident(sIota) >>),
                ValueSpec(<< << "G", "r", "e", "e", "n" >> >>, Nil, << >>),
                ValueSpec(<< << "B", "l", "u", "e" >> >>, Nil, << >>) >>)
  >>

\* The specs of a general declaration, the j-th at position first + j - 1.
SpecsAt(d, first) ==
  [d EXCEPT !.specs =
     [j \in 1..Len(d.specs) |-> [d.specs[j] EXCEPT !.pos = first + j - 1]]]

\* token.Pos: the declaration at index i of a file starts at (i-1)*PosStride;
\* a func declaration is at its keyword, a spec at its first name.  The
\* declarations in a func body (one spec each) lie after the keyword.
AtPos(d, i) ==
  LET base == (i - 1) * PosStride
  IN  IF d.k = "FuncDecl"
        THEN [d EXCEPT !.pos = base + 1,
                       !.body = [j \in 1..Len(d.body) |->
                                   SpecsAt(d.body[j], base + 1 + j)]]
        ELSE SpecsAt(d, base + 1)

\* The sequences over 1..n of length at most len.
RECURSIVE SeqsUpTo(_, _)
SeqsUpTo(n, len) ==
  IF len = 0 THEN { << >> }
  ELSE LET shorter == SeqsUpTo(n, len - 1)
       IN  shorter \cup { Append(q, x) : q \in shorter, x \in 1..n }

\* The declarations of a file made of the shapes ix, in source order.
DeclsOf(ix) == [i \in 1..Len(ix) |-> AtPos(DeclShapes[ix[i]], i)]

GoFile(path, ix) == [path |-> path, ok |-> TRUE, decls |-> DeclsOf(ix)]

\* A file made of the shapes ix of RenderShapes.
RenderFile(path, ix) ==
  [path |-> path, ok |-> TRUE,
   decls |-> [i \in 1..Len(ix) |-> AtPos(RenderShapes[ix[i]], i)]]

\* A file the parser rejects: the valid declaration func F(a string) int
\* followed by a syntax error.  parser.ParseFile returns the tree of what it
\* could parse together with the error.
BadFile(path) == [path |-> path, ok |-> FALSE, decls |-> DeclsOf(<< 1 >>)]

\* A file that is not Go source.
TextFile(path) == [path |-> path, ok |-> FALSE, decls |-> << >>]

pW == << "/", "w" >>
pWP == << "/", "w", "/", "p" >>
pT == << "/", "w", "/", "t", ".", "g", "o" >>
pA == << "/", "w", "/", "p", "/", "a", ".", "g", "o" >>
pQ == << "/", "w", "/", "q", ".", "g", "o" >>
pCTest == << "/", "w", "/", "p", "/", "c", "_", "t", "e", "s", "t", ".", "g", "o" >>
pTxt == << "/", "w", "/", "n", ".", "t", "x", "t" >>
pMissing == << "/", "w", "/", "z", "z" >>
pDotRec == << ".", "/", ".", ".", "." >>
pWPRec == pWP \o sRecursive

\* The Go files of the tree /w/p/a.go, /w/p/c_test.go, /w/q.go, /w/n.txt:
\* a.go and q.go parse or not.
TreeFiles ==
  { { fa, fq, GoFile(pCTest, << 1 >>), TextFile(pTxt) } :
      fa \in { GoFile(pA, << 1, 3 >>), BadFile(pA) },
      fq \in { GoFile(pQ, << 3, 1 >>), BadFile(pQ) } }

\* Settings of the -ext and -exclude flags: the defaults, another
\* extension, a list with a blank and without the leading dot, the empty
\* exclude setting, an exclude suffix that is no Go file's, and a list.
sTxt == << ".", "t", "x", "t" >>
ExtFlags ==
  { DefaultExt, sTxt, << "g", "o", ",", " " >> \o sTxt }

ExclFlags ==
  { DefaultExclude, << >>, sTxt, DefaultExclude \o << "," >> \o sTxt }

\* The path arguments given on the tree.
ArgPaths == << pDotRec, pW, pWPRec, pQ, pCTest, pTxt, pMissing >>

(***************************************************************************)
(* State.                                                                  *)
(***************************************************************************)
VARIABLES
  includePrivate,   \* flag -private (main.go 19)
  skipValues,       \* flag -no-values (main.go 20)
  maxValueLength,   \* flag -max-length (main.go 21)
  fileExtensions,   \* flag -ext (main.go 22)
  excludeSuffixes,  \* flag -exclude (main.go 23)
  workDir,          \* os.Getwd() (main.go 24, 42)
  fs,               \* the regular files of the file system
  args,             \* flag.Args(), the path arguments
  pc,               \* the statement the program is at
  argi,             \* run: index of the path argument being processed
  path,             \* processPath: its path parameter
  files,            \* processPath: the files of a directory scan
  filei,            \* processPath: index into files
  filename,         \* processFile: its filename parameter
  single,           \* processFile was called for a single file (main.go 238)
  decli,            \* processFile: index into f.Decls
  declsByPos,       \* processFile: position -> line
  positions,        \* processFile: the positions to print
  posi,             \* processFile: index into positions
  out,              \* standard output, the declaration lines printed so far
  err,              \* the error run returned
  exitCode          \* the exit status; -1 while the process runs

flags ==
  << includePrivate, skipValues, maxValueLength, fileExtensions,
     excludeSuffixes, workDir, fs, args >>

scan == << path, files, filei >>

file == << filename, single, decli, declsByPos, positions, posi >>

vars == << flags, pc, argi, scan, file, out, err, exitCode >>

NoErr == [kind |-> "nil", path |-> << >>]
PathErr(p) == [kind |-> "path", path |-> p]
ExtensionErr(p) == [kind |-> "extension", path |-> p]
SyntaxErr(p) == [kind |-> "syntax", path |-> p]
UsageErr == [kind |-> "usage", path |-> << >>]

EmptyMap == [p \in {} |-> << >>]

Start ==
  /\ pc = "run"
  /\ argi = 0
  /\ path = << >>
  /\ files = << >>
  /\ filei = 0
  /\ filename = << >>
  /\ single = FALSE
  /\ decli = 0
  /\ declsByPos = EmptyMap
  /\ positions = << >>
  /\ posi = 0
  /\ out = << >>
  /\ err = NoErr
  /\ exitCode = -1

\* One file /w/t.go with any declarations, named on the command line, under
\* any flags.
InitFile ==
  /\ \E ix \in SeqsUpTo(Len(DeclShapes), MaxDecls) : fs = { GoFile(pT, ix) }
  /\ workDir = pW
  /\ args = << pT >>
  /\ includePrivate \in BOOLEAN
  /\ skipValues \in BOOLEAN
  /\ maxValueLength \in (0..MaxValueLength) \cup { DefaultMaxValueLength }
  /\ fileExtensions = DefaultExt
  /\ excludeSuffixes = DefaultExclude
  /\ Start

\* The tree, in either working directory, with any path arguments (none
\* included), under the default flags.
InitTree ==
  /\ fs \in TreeFiles
  /\ workDir \in { pW, pWP }
  /\ \E ax \in SeqsUpTo(Len(ArgPaths), MaxArgs) :
       args = [i \in 1..Len(ax) |-> ArgPaths[ax[i]]]
  /\ includePrivate = FALSE
  /\ skipValues = FALSE
  /\ maxValueLength = DefaultMaxValueLength
  /\ fileExtensions = DefaultExt
  /\ excludeSuffixes = DefaultExclude
  /\ Start

\* One file /w/t.go made of the declarations whose rendering is examined,
\* with values shown and the default maximum length.
InitRender ==
  /\ \E ix \in SeqsUpTo(Len(RenderShapes), MaxRenderDecls) :
       fs = { RenderFile(pT, ix) }
  /\ workDir = pW
  /\ args = << pT >>
  /\ includePrivate \in BOOLEAN
  /\ skipValues = FALSE
  /\ maxValueLength = DefaultMaxValueLength
  /\ fileExtensions = DefaultExt
  /\ excludeSuffixes = DefaultExclude
  /\ Start

\* The tree in working directory /w with one path argument, under any
\* setting of the extension and exclude flags.
InitFlags ==
  /\ fs \in TreeFiles
  /\ workDir = pW
  /\ \E a \in 1..Len(ArgPaths) : args = << ArgPaths[a] >>
  /\ includePrivate = FALSE
  /\ skipValues = FALSE
  /\ maxValueLength = DefaultMaxValueLength
  /\ fileExtensions \in ExtFlags
  /\ excludeSuffixes \in ExclFlags
  /\ Start

Init == InitFile \/ InitTree \/ InitRender \/ InitFlags

(***************************************************************************)
(* run and main (main.go 33-91).                                           *)
(***************************************************************************)
\* No path argument: the usage text and an error (main.go 57-62).
RunUsage ==
  /\ pc = "run" /\ argi = 0 /\ Len(args) = 0
  /\ err' = UsageErr
  /\ pc' = "fail"
  /\ UNCHANGED << flags, argi, scan, file, out, exitCode >>

\* The loop takes the first path argument (main.go 65-66).
RunStart ==
  /\ pc = "run" /\ argi = 0 /\ Len(args) > 0
  /\ argi' = 1
  /\ pc' = "path"
  /\ UNCHANGED << flags, scan, file, out, err, exitCode >>

\* The loop body calls processPath on the absolute path of the argument,
\* with or without the recursive marker (main.go 67-88).
RunPath ==
  /\ pc = "path" /\ argi <= Len(args)
  /\ path' = Abs(BasePath(args[argi]), workDir)
  /\ pc' = "stat"
  /\ UNCHANGED << flags, argi, files, filei, file, out, err, exitCode >>

\* All path arguments are done: run returns nil and main returns.
RunDone ==
  /\ pc = "path" /\ argi > Len(args)
  /\ pc' = "exit"
  /\ exitCode' = 0
  /\ UNCHANGED << flags, argi, scan, file, out, err >>

\* run returned an error: main prints it and exits with status 1
\* (main.go 34-37).
MainFail ==
  /\ pc = "fail"
  /\ pc' = "exit"
  /\ exitCode' = 1
  /\ UNCHANGED << flags, argi, scan, file, out, err >>

(***************************************************************************)
(* processFile (main.go 94-154).                                           *)
(***************************************************************************)
\* The display path of a file (main.go 101-106).
RelPath(name, wd) == Rel(wd, Abs(name, wd))

\* fmt.Sprintf("%s: %s", relPath, decl)
Line(rel, decl) == rel \o << ":", " " >> \o decl

\* A map in which the line stored first under a position is kept.
PutFirst(map, pos, line) == map @@ (pos :> line)

\* declsByPos[pos] = line
Put(map, pos, line) == (pos :> line) @@ map

\* The loop over the declarations of one value spec (main.go 126-128): every
\* declaration is stored under the position of the spec.
RECURSIVE PutAll(_, _, _, _)
PutAll(map, pos, rel, decls) ==
  IF decls = << >> THEN map
  ELSE PutAll(Put(map, pos, Line(rel, decls[1])), pos, rel, Tail(decls))

\* The declarations of a value spec are stored, unless formatValueSpec
\* panicked.
storeDecls(map, pos, rel, decls) ==
  IF decls = Panic THEN [panic |-> TRUE, map |-> map]
  ELSE [panic |-> FALSE, map |-> PutAll(map, pos, rel, decls)]

\* One spec of a general declaration (main.go 116-129).  The result is the
\* map after the spec, or a panic raised by formatValueSpec.
processSpec(map, s, tok, rel, private, maxLen) ==
  CASE s.k = "TypeSpec" ->
         IF ~private /\ ~IsExported(s.name)
           THEN [panic |-> FALSE, map |-> map]
           ELSE [panic |-> FALSE,
                 map |-> Put(map, s.pos, Line(rel, formatTypeSpec(s)))]
    [] s.k = "ValueSpec" ->
         IF ~private /\ ~IsExported(s.names[1])
           THEN [panic |-> FALSE, map |-> map]
           ELSE storeDecls(map, s.pos, rel, formatValueSpec(s, tok, maxLen))
    [] OTHER -> [panic |-> FALSE, map |-> map]

\* The loop over d.Specs (main.go 115-130): after a spec with result r the
\* loop goes on with the specs that are left, unless r is a panic.
RECURSIVE processSpecs(_, _, _, _, _, _)
nextSpecs(r, specs, tok, rel, private, maxLen) ==
  IF r.panic THEN r
  ELSE processSpecs(r.map, specs, tok, rel, private, maxLen)

processSpecs(map, specs, tok, rel, private, maxLen) ==
  IF specs = << >> THEN [panic |-> FALSE, map |-> map]
  ELSE nextSpecs(processSpec(map, specs[1], tok, rel, private, maxLen),
                 Tail(specs), tok, rel, private, maxLen)

\* A traversal that visits the declarations in a func body as well.
RECURSIVE processBody(_, _, _, _, _)
nextBody(r, body, rel, private, maxLen) ==
  IF r.panic THEN r ELSE processBody(r.map, body, rel, private, maxLen)

processBody(map, body, rel, private, maxLen) ==
  IF body = << >> THEN [panic |-> FALSE, map |-> map]
  ELSE nextBody(processSpecs(map, body[1].specs, body[1].tok, rel, private,
                             maxLen),
                Tail(body), rel, private, maxLen)

processDeclInspect(map, d, rel, private, maxLen) ==
  CASE d.k = "GenDecl" ->
         processSpecs(map, d.specs, d.tok, rel, private, maxLen)
    [] d.k = "FuncDecl" ->
         processBody(IF ~private /\ ~IsExported(d.name) THEN map
                     ELSE Put(map, d.pos, Line(rel, formatFuncDecl(d))),
                     d.body, rel, private, maxLen)
    [] OTHER -> [panic |-> FALSE, map |-> map]

\* One iteration of the loop over f.Decls (main.go 112-137): the body of a
\* func declaration is not looked at.
processDecl(map, d, rel, private, maxLen) ==
  CASE d.k = "GenDecl" ->
         processSpecs(map, d.specs, d.tok, rel, private, maxLen)
    [] d.k = "FuncDecl" ->
         IF ~private /\ ~IsExported(d.name)
           THEN [panic |-> FALSE, map |-> map]
           ELSE [panic |-> FALSE,
                 map |-> Put(map, d.pos, Line(rel, formatFuncDecl(d)))]
    [] OTHER -> [panic |-> FALSE, map |-> map]

CurFile == FileAt(fs, filename)

\* A scan that notes the error of a file and goes on with the next file.
ParseFailSkips ==
  /\ pc = "parse" /\ ~CurFile.ok
  /\ err' = SyntaxErr(filename)
  /\ IF single
       THEN pc' = "fail" /\ filei' = filei
       ELSE pc' = "files" /\ filei' = filei + 1
  /\ UNCHANGED << flags, argi, path, files, file, out, exitCode >>

\* A processFile that prints what was parsed before the syntax error and
\* then returns the error.
ParseFailPrintsPartial ==
  /\ pc = "parse" /\ ~CurFile.ok
  /\ err' = SyntaxErr(filename)
  /\ pc' = "fail"
  /\ out' = out \o
              [i \in 1..Len(CurFile.decls) |->
                 [text |-> Line(RelPath(filename, workDir),
                                formatFuncDecl(CurFile.decls[i])),
                  file |-> filename,
                  pos |-> CurFile.decls[i].pos,
                  arg |-> argi]]
  /\ UNCHANGED << flags, argi, scan, file, exitCode >>

\* parser.ParseFile fails: processFile returns the error, and so do
\* processPath and run (main.go 95-98, 221-223, 238, 77-79, 85-87).
ParseFail ==
  /\ pc = "parse" /\ ~CurFile.ok
  /\ err' = SyntaxErr(filename)
  /\ pc' = "fail"
  /\ UNCHANGED << flags, argi, scan, file, out, exitCode >>

\* parser.ParseFile succeeds; the map is created (main.go 95-109).
ParseOk ==
  /\ pc = "parse" /\ CurFile.ok
  /\ declsByPos' = EmptyMap
  /\ positions' = << >>
  /\ decli' = 1
  /\ posi' = 0
  /\ pc' = "decls"
  /\ UNCHANGED << flags, argi, scan, filename, single, out, err, exitCode >>

\* The result of processDecl is no panic and becomes the map.
stored(r) == ~r.panic /\ declsByPos' = r.map

\* One declaration of the file is stored (main.go 112-137).
Declare ==
  /\ pc = "decls" /\ decli <= Len(CurFile.decls)
  /\ stored(processDecl(declsByPos, CurFile.decls[decli],
                        RelPath(filename, workDir), includePrivate,
                        maxValueLength))
  /\ decli' = decli + 1
  /\ UNCHANGED << flags, pc, argi, scan, filename, single, positions, posi,
                  out, err, exitCode >>

\* formatValue slices out of range: the process panics (exit status 2) and
\* nothing of the file is printed.
DeclarePanic ==
  /\ pc = "decls" /\ decli <= Len(CurFile.decls)
  /\ processDecl(declsByPos, CurFile.decls[decli],
                 RelPath(filename, workDir), includePrivate,
                 maxValueLength).panic
  /\ pc' = "exit"
  /\ exitCode' = 2
  /\ UNCHANGED << flags, argi, scan, file, out, err >>

\* The positions are read off the map, in the order the map iteration
\* yields them, which Go leaves unspecified (main.go 140-143).
Collect ==
  /\ pc = "decls" /\ decli > Len(CurFile.decls)
  /\ positions' \in Orders(DOMAIN declsByPos)
  /\ pc' = "sortpos"
  /\ UNCHANGED << flags, argi, scan, filename, single, decli, declsByPos,
                  posi, out, err, exitCode >>

\* sort.Slice(positions, ...) (main.go 144-146).
SortPos ==
  /\ pc = "sortpos"
  /\ positions' = SortPositions(positions)
  /\ posi' = 1
  /\ pc' = "print"
  /\ UNCHANGED << flags, argi, scan, filename, single, decli, declsByPos,
                  out, err, exitCode >>

\* fmt.Println(declsByPos[pos]) (main.go 149-151).  A printed line is kept
\* with the file, the position and the path argument it comes from.
Println ==
  /\ pc = "print" /\ posi <= Len(positions)
  /\ out' = Append(out, [text |-> declsByPos[positions[posi]],
                         file |-> filename,
                         pos |-> positions[posi],
                         arg |-> argi])
  /\ posi' = posi + 1
  /\ UNCHANGED << flags, pc, argi, scan, filename, single, decli, declsByPos,
                  positions, err, exitCode >>

\* processFile returns nil, to the single-file call of processPath, which
\* returns to run (main.go 238), or to the loop of a directory scan
\* (main.go 220-224).
FileDone ==
  /\ pc = "print" /\ posi > Len(positions)
  /\ IF single
       THEN /\ pc' = "path"
            /\ argi' = argi + 1
            /\ filei' = filei
       ELSE /\ pc' = "files"
            /\ filei' = filei + 1
            /\ argi' = argi
  /\ UNCHANGED << flags, path, files, file, out, err, exitCode >>

(***************************************************************************)
(* processPath (main.go 157-242).                                          *)
(***************************************************************************)
\* A run that notes the error of a path argument and goes on with the next.
StatFailContinues ==
  /\ pc = "stat" /\ ~IsFile(fs, path) /\ ~IsDir(fs, path)
  /\ err' = PathErr(path)
  /\ argi' = argi + 1
  /\ pc' = "path"
  /\ UNCHANGED << flags, scan, file, out, exitCode >>

\* os.Stat fails (main.go 158-161).
StatFail ==
  /\ pc = "stat" /\ ~IsFile(fs, path) /\ ~IsDir(fs, path)
  /\ err' = PathErr(path)
  /\ pc' = "fail"
  /\ UNCHANGED << flags, argi, scan, file, out, exitCode >>

\* A directory: filepath.Walk collects the selected files (main.go 178-210).
\* The order of discovery is left open; the sort that follows decides.
Walk ==
  /\ pc = "stat" /\ IsDir(fs, path)
  /\ files' \in Orders(Selected(fs, path, fileExtensions, excludeSuffixes))
  /\ filei' = 0
  /\ pc' = "sort"
  /\ UNCHANGED << flags, argi, path, file, out, err, exitCode >>

\* The files are sorted by display path (main.go 213-217).
SortScan ==
  /\ pc = "sort"
  /\ files' = SortFiles(files, workDir)
  /\ filei' = 1
  /\ pc' = "files"
  /\ UNCHANGED << flags, argi, path, file, out, err, exitCode >>

\* The next file of the scan is processed (main.go 220-221).
ScanNext ==
  /\ pc = "files" /\ filei <= Len(files)
  /\ filename' = files[filei]
  /\ single' = FALSE
  /\ pc' = "parse"
  /\ UNCHANGED << flags, argi, scan, decli, declsByPos, positions, posi,
                  out, err, exitCode >>

\* The scan is over: processPath returns nil (main.go 225).
ScanDone ==
  /\ pc = "files" /\ filei > Len(files)
  /\ argi' = argi + 1
  /\ pc' = "path"
  /\ UNCHANGED << flags, scan, file, out, err, exitCode >>

\* A single file an exclude suffix matches: nothing is done (main.go 229-233).
SingleExcluded ==
  /\ pc = "stat" /\ IsFile(fs, path)
  /\ HasAnySuffix(path, Excludes(excludeSuffixes))
  /\ argi' = argi + 1
  /\ pc' = "path"
  /\ UNCHANGED << flags, scan, file, out, err, exitCode >>

\* A single file with a configured extension (main.go 236-240).
SingleFile ==
  /\ pc = "stat" /\ IsFile(fs, path)
  /\ ~HasAnySuffix(path, Excludes(excludeSuffixes))
  /\ HasAnySuffix(path, Extensions(fileExtensions))
  /\ filename' = path
  /\ single' = TRUE
  /\ pc' = "parse"
  /\ UNCHANGED << flags, argi, scan, decli, declsByPos, positions, posi,
                  out, err, exitCode >>

\* A single file with no configured extension that is passed over in
\* silence.
SingleUnsupportedSkipped ==
  /\ pc = "stat" /\ IsFile(fs, path)
  /\ ~HasAnySuffix(path, Excludes(excludeSuffixes))
  /\ ~HasAnySuffix(path, Extensions(fileExtensions))
  /\ argi' = argi + 1
  /\ pc' = "path"
  /\ UNCHANGED << flags, scan, file, out, err, exitCode >>

\* A single file with no configured extension (main.go 241).
SingleUnsupported ==
  /\ pc = "stat" /\ IsFile(fs, path)
  /\ ~HasAnySuffix(path, Excludes(excludeSuffixes))
  /\ ~HasAnySuffix(path, Extensions(fileExtensions))
  /\ err' = ExtensionErr(path)
  /\ pc' = "fail"
  /\ UNCHANGED << flags, argi, scan, file, out, exitCode >>

Next ==
  \/ RunUsage
  \/ RunStart
  \/ RunPath
  \/ RunDone
  \/ MainFail
  \/ StatFail
  \/ Walk
  \/ SortScan
  \/ ScanNext
  \/ ScanDone
  \/ SingleExcluded
  \/ SingleFile
  \/ SingleUnsupported
  \/ ParseFail
  \/ ParseOk
  \/ Declare
  \/ DeclarePanic
  \/ Collect
  \/ SortPos
  \/ Println
  \/ FileDone

Spec == Init /\ [][Next]_vars

(***************************************************************************)
(* Reading the output.                                                     *)
(***************************************************************************)
\* The signature of a printed line: the text after "<display path>: ".
Sig(l) ==
  SubSeq(l.text, Len(RelPath(l.file, workDir)) + 3, Len(l.text))

\* The signature is the one of the declaration kw name ("func F(...",
\* "type T ...", "var x ...").
Named(sig, kw, name) ==
  \/ sig = kw \o name
  \/ HasPrefix(sig, kw \o name \o << " " >>)
  \/ HasPrefix(sig, kw \o name \o << "(" >>)

\* The specs of the general declarations of a file, its value specs, and
\* the names the file declares at top level, each with its keyword in the
\* output (var and const are both written "var").
GenDecls(f) ==
  { f.decls[i] : i \in { n \in 1..Len(f.decls) : f.decls[n].k = "GenDecl" } }

FuncDecls(f) ==
  { f.decls[i] : i \in { n \in 1..Len(f.decls) : f.decls[n].k = "FuncDecl" } }

Specs(f) ==
  UNION { { d.specs[j] : j \in 1..Len(d.specs) } : d \in GenDecls(f) }

ValueSpecs(f) == { sp \in Specs(f) : sp.k = "ValueSpec" }

TypeSpecs(f) == { sp \in Specs(f) : sp.k = "TypeSpec" }

Declared(f) ==
  { [kw |-> sFunc, name |-> d.name] : d \in FuncDecls(f) }
    \cup { [kw |-> sType, name |-> sp.name] : sp \in TypeSpecs(f) }
    \cup UNION { { [kw |-> sVar, name |-> sp.names[i]] :
                     i \in 1..Len(sp.names) } : sp \in ValueSpecs(f) }

\* processFile has printed all the lines of the file it was called for.
FilePrinted == pc = "print" /\ posi > Len(positions)

\* The lines of the output that the current call of processFile printed.
CallLines ==
  { i \in 1..Len(out) : out[i].file = filename /\ out[i].arg = argi }

\* The current call of processFile printed a line for the declaration.
HasLine(kw, name) == \E i \in CallLines : Named(Sig(out[i]), kw, name)

(***************************************************************************)
(* Properties.                                                             *)
(***************************************************************************)
\* C1: for every top-level name D of a processed file: an exported D has a
\* line in the output when includePrivate is unset; a non-exported D has no
\* line when includePrivate is unset and has one when it is set.
C1_VisibilityPerName ==
  FilePrinted =>
    \A D \in Declared(CurFile) :
      /\ (IsExported(D.name) /\ ~includePrivate) => HasLine(D.kw, D.name)
      /\ (~IsExported(D.name) /\ ~includePrivate) => ~HasLine(D.kw, D.name)
      /\ (~IsExported(D.name) /\ includePrivate) => HasLine(D.kw, D.name)

\* C2: a value spec binding k names that passes the visibility filter gets
\* exactly k lines, the i-th for the i-th name.
C2_OneLinePerName ==
  FilePrinted =>
    \A sp \in ValueSpecs(CurFile) :
      (includePrivate \/ \A n \in 1..Len(sp.names) : IsExported(sp.names[n]))
        => LET at == { i \in CallLines : out[i].pos = sp.pos }
               first == CHOOSE i \in at : \A j \in at : i <= j
           IN  /\ Cardinality(at) = Len(sp.names)
               /\ \A n \in 1..Len(sp.names) :
                    Named(Sig(out[first + n - 1]), sVar, sp.names[n])

\* C3: with includePrivate unset, the lines of a value spec are exactly the
\* lines of its exported names, whatever its first name is.
C3_FilterPerName ==
  (FilePrinted /\ ~includePrivate) =>
    \A sp \in ValueSpecs(CurFile) :
      \A n \in 1..Len(sp.names) :
        (\E i \in CallLines :
           out[i].pos = sp.pos /\ Named(Sig(out[i]), sVar, sp.names[n]))
          <=> IsExported(sp.names[n])

\* C4: the lines printed for a file are in strictly increasing order of
\* source position, whatever order the map iteration gave.
C4_PositionOrder ==
  \A i, j \in 1..Len(out) :
    (i < j /\ out[i].file = out[j].file /\ out[i].arg = out[j].arg)
      => out[i].pos < out[j].pos

\* C4 witness: a file with several stored positions has been printed.
C4_Witness ==
  /\ FilePrinted
  /\ Len(positions) >= 2
  /\ Cardinality(CallLines) = Len(positions)

\* C5: a value whose rendered string V is longer than maxValueLength is
\* printed as the first maxValueLength characters of V followed by "...".
C5_TruncatedLength ==
  \A i \in 1..Len(out) :
    \A sp \in ValueSpecs(FileAt(fs, out[i].file)) :
      \A n \in 1..Len(sp.values) :
        ( /\ out[i].pos = sp.pos
          /\ n <= Len(sp.names)
          /\ Named(Sig(out[i]), sVar, sp.names[n])
          /\ Len(ExprString(sp.values[n])) > maxValueLength )
          => HasSuffix(out[i].text,
                       sEq \o SubSeq(ExprString(sp.values[n]), 1,
                                     maxValueLength) \o sEllipsis)

\* C6: with skipValues set, no var/const line has a " = <value>" part.
C6_SkipValues ==
  \A i \in 1..Len(out) :
    (skipValues /\ HasPrefix(Sig(out[i]), sVar))
      => ~Contains(Sig(out[i]), sEq)

\* The display path of the file of the i-th output line.
Display(i) == RelPath(out[i].file, workDir)

\* C7: in a directory scan, no line of a file comes after a line of a file
\* with a greater display path.
C7_ScanSorted ==
  \A i, j \in 1..Len(out) :
    (i < j /\ out[i].arg = out[j].arg)
      => ~StrLess(Display(j), Display(i))

\* C7 witness: a scan has printed lines of two files, and the file printed
\* first has the greater absolute path (the display paths decide).
C7_Witness ==
  \E i, j \in 1..Len(out) :
    /\ i < j
    /\ out[i].arg = out[j].arg
    /\ out[i].file # out[j].file
    /\ StrLess(out[j].file, out[i].file)

\* C8 as stated: over the whole invocation, no line of a file comes after a
\* line of a file with a greater display path.
C8_GloballySorted ==
  \A i, j \in 1..Len(out) : i < j => ~StrLess(Display(j), Display(i))

\* C8 amended: the path arguments are processed in the order given, and
\* within one path argument the files are in sorted display-path order.
C8_SortedPerArgument ==
  \A i, j \in 1..Len(out) :
    i < j =>
      /\ out[i].arg <= out[j].arg
      /\ out[i].arg = out[j].arg => ~StrLess(Display(j), Display(i))

\* C8 witness: a later path argument has printed a file with a smaller
\* display path than a file of an earlier path argument.
C8_Witness ==
  \E i, j \in 1..Len(out) :
    /\ i < j
    /\ out[i].arg < out[j].arg
    /\ StrLess(Display(j), Display(i))

\* The files a directory scan of the current path selects.
ScanFiles == Selected(fs, path, fileExtensions, excludeSuffixes)

\* The run ended on a syntax error met in a directory scan.
ScanFailed ==
  /\ pc = "exit"
  /\ err.kind = "syntax"
  /\ ~single

\* Some line of the current path argument belongs to the file.
Processed(f) == \E i \in 1..Len(out) : out[i].arg = argi /\ out[i].file = f

\* The file parses and declares an exported function: processFile prints a
\* line for it under every setting.
Emits(f) ==
  /\ FileAt(fs, f).ok
  /\ \E d \in FuncDecls(FileAt(fs, f)) : IsExported(d.name)

\* C9 as stated: after a syntax error in a directory scan, every other
\* selected file that parses has been processed.
C9_ScanContinues ==
  ScanFailed => \A f \in ScanFiles : Emits(f) => Processed(f)

\* C9 amended: the scan stops at the first file, in sorted order, that does
\* not parse; the error is that file's, the files sorted before it have
\* been processed, and no file sorted after it is.
C9_ScanStopsAtError ==
  ScanFailed =>
    /\ err.path \in ScanFiles
    /\ ~FileAt(fs, err.path).ok
    /\ \A f \in ScanFiles :
         /\ (StrLess(RelPath(f, workDir), RelPath(err.path, workDir))
               => FileAt(fs, f).ok /\ (Emits(f) => Processed(f)))
         /\ (StrLess(RelPath(err.path, workDir), RelPath(f, workDir))
               => ~Processed(f))

\* C9 witness: a scan failed after it had printed the lines of another file.
C9_Witness ==
  /\ ScanFailed
  /\ \E f \in ScanFiles : Processed(f)

\* The run ended on an error of processPath.
PathFailed ==
  /\ pc = "exit"
  /\ err.kind \in { "path", "extension", "syntax" }

\* C10 as stated: after a failing path argument every later one is still
\* attempted (the run does not end before its last path argument), and the
\* exit status is not zero.
C10_LaterPathsAttempted ==
  PathFailed => (argi >= Len(args) /\ exitCode # 0)

\* C10 amended: run returns the error of the first failing path argument at
\* once; no later argument is attempted, and the exit status is 1.
C10_StopsAtFirstFailure ==
  PathFailed =>
    /\ exitCode = 1
    /\ argi \in 1..Len(args)
    /\ \A i \in 1..Len(out) : out[i].arg <= argi
    /\ HasPrefix(err.path, Abs(BasePath(args[argi]), workDir))

\* C10 witness: the run failed on a path argument that is not the last.
C10_Witness ==
  /\ PathFailed
  /\ argi < Len(args)

\* Line i of the output is the line of the n-th name of value spec sp of
\* the file the line was printed for.
IsLineOf(i, sp, n) ==
  /\ sp \in ValueSpecs(FileAt(fs, out[i].file))
  /\ out[i].pos = sp.pos
  /\ n \in 1..Len(sp.names)
  /\ Named(Sig(out[i]), sVar, sp.names[n])

\* The value specs of the files of the file system.
AllValueSpecs == UNION { ValueSpecs(f) : f \in fs }

\* A value that is a literal (or the identifier true or false), and the
\* type its kind stands for.
IsLiteral(e) ==
  \/ e.k = "BasicLit" /\ e.kind \in { "INT", "FLOAT", "STRING", "CHAR" }
  \/ e.k = "Ident" /\ e.name \in { sTrue, sFalse }

LiteralType(e) ==
  CASE e.k = "Ident" -> sBool
    [] e.kind = "INT" -> sInt
    [] e.kind = "FLOAT" -> sFloat64
    [] e.kind = "STRING" -> sString
    [] e.kind = "CHAR" -> sRune

\* C11: every line printed for a name declared without an explicit type and
\* with a literal value carries the type of the literal's kind (int,
\* float64, string, rune, bool), whatever the name is.
C11_LiteralKindType ==
  \A i \in 1..Len(out) :
    \A sp \in AllValueSpecs :
      \A n \in 1..Len(sp.names) :
        ( /\ IsLineOf(i, sp, n)
          /\ sp.type.k = "nil"
          /\ n <= Len(sp.values)
          /\ IsLiteral(sp.values[n]) )
          => HasPrefix(Sig(out[i]),
                       sVar \o sp.names[n] \o << " " >>
                         \o LiteralType(sp.values[n]) \o sEq)

\* The var and const declarations of the files of the file system.
AllValueDecls ==
  { d \in UNION { GenDecls(f) : f \in fs } : d.tok \in { "var", "const" } }

\* The specs of group d before index j that have an explicit type, and the
\* type of the nearest of them.
TypedBefore(d, j) == { m \in 1..(j - 1) : d.specs[m].type.k # "nil" }

NearestType(d, j) ==
  LET m == CHOOSE x \in TypedBefore(d, j) : \A y \in TypedBefore(d, j) : y <= x
  IN  ExprString(d.specs[m].type)

\* The signature of a var line gives the name the type t.
HasType(sig, name, t) ==
  \/ sig = sVar \o name \o << " " >> \o t
  \/ HasPrefix(sig, sVar \o name \o << " " >> \o t \o sEq)

\* C12: in a var/const group, every line printed for a name that has no
\* explicit type and no value expression carries the nearest preceding
\* explicit type of the group.
C12_GroupTypePropagated ==
  \A i \in 1..Len(out) :
    \A d \in AllValueDecls :
      \A j \in 1..Len(d.specs) :
        \A n \in 1..Len(d.specs[j].names) :
          ( /\ d.specs[j].type.k = "nil"
            /\ d.specs[j].values = << >>
            /\ TypedBefore(d, j) # { }
            /\ IsLineOf(i, d.specs[j], n) )
            => HasType(Sig(out[i]), d.specs[j].names[n], NearestType(d, j))

\* The group const ( Sunday Day = iota; Monday; Tuesday ).
IsDayGroup(d) ==
  /\ d.tok = "const"
  /\ Len(d.specs) = 3
  /\ d.specs[1].names = << sSunday >>
  /\ d.specs[1].type = Ident(sDay)
  /\ d.specs[1].values = << Ident(sIota) >>
  /\ d.specs[2].names = << sMonday >>
  /\ d.specs[3].names = << sTuesday >>
  /\ \A j \in 2..3 : d.specs[j].type.k = "nil" /\ d.specs[j].values = << >>

\* C13: with values shown, the group const ( Sunday Day = iota; Monday;
\* Tuesday ) gets three lines; the line of Sunday ends with the value iota,
\* and the lines of Monday and Tuesday have no " = value" part.
C13_DayGroupLines ==
  (FilePrinted /\ ~skipValues) =>
    \A d \in GenDecls(CurFile) :
      IsDayGroup(d) =>
        /\ \A j \in 1..3 :
             Cardinality({ i \in CallLines : IsLineOf(i, d.specs[j], 1) }) = 1
        /\ \A i \in CallLines :
             /\ IsLineOf(i, d.specs[1], 1) => HasSuffix(Sig(out[i]), sIotaValue)
             /\ \A j \in 2..3 :
                  IsLineOf(i, d.specs[j], 1) => ~Contains(Sig(out[i]), sEq)

\* The func declarations of the files of the file system.
AllFuncDecls == UNION { FuncDecls(f) : f \in fs }

\* Line i of the output is the line of func declaration d.
IsFuncLine(i, d) ==
  /\ d \in FuncDecls(FileAt(fs, out[i].file))
  /\ out[i].pos = d.pos
  /\ Named(Sig(out[i]), sFunc, d.name)

\* The number of parameters or results a field list declares: one per name,
\* one for a field without names.
RECURSIVE Declares(_)
Declares(list) ==
  IF list = << >> THEN 0
  ELSE (IF list[1].names = << >> THEN 1 ELSE Len(list[1].names))
         + Declares(Tail(list))

\* The parameter list of a signature (between the first parenthesis and the
\* first closing one) and the result list (what follows, after a blank).
CloseAt(sig) == CHOOSE p \in 1..Len(sig) :
                  sig[p] = ")" /\ \A q \in 1..(p - 1) : sig[q] # ")"

OpenAt(sig) == CHOOSE p \in 1..Len(sig) :
                 sig[p] = "(" /\ \A q \in 1..(p - 1) : sig[q] # "("

ParamPart(sig) == SubSeq(sig, OpenAt(sig) + 1, CloseAt(sig) - 1)

ResultPart(sig) == SubSeq(sig, CloseAt(sig) + 2, Len(sig))

\* The items of a comma-separated list.
Items(s) == IF s = << >> THEN << >> ELSE Split(s, ",")

\* C14: the result list of a printed signature is bare for exactly one
\* unnamed result; for several results or a named one it is parenthesized,
\* has one item per declared result and shows every result name.
C14_ResultList ==
  \A i \in 1..Len(out) :
    \A d \in AllFuncDecls :
      IsFuncLine(i, d) =>
        LET rs == d.type.results
            part == ResultPart(Sig(out[i]))
        IN  /\ (Len(rs) = 1 /\ rs[1].names = << >>)
                 => part = ExprString(rs[1].type)
            /\ (Len(rs) > 1 \/ \E r \in 1..Len(rs) : rs[r].names # << >>)
                 => /\ HasPrefix(part, << "(" >>)
                    /\ HasSuffix(part, << ")" >>)
                    /\ Len(Items(part)) = Declares(rs)
                    /\ \A r \in 1..Len(rs) :
                         \A n \in 1..Len(rs[r].names) :
                           Contains(part, rs[r].names[n])

\* A field list written in full: every name with its type ("a int, b int"),
\* or the names of a field together before their type ("a, b int"); a field
\* without names is its type.
PerName(list) ==
  Join([f \in 1..Len(list) |->
          IF list[f].names = << >> THEN ExprString(list[f].type)
          ELSE Join([n \in 1..Len(list[f].names) |->
                       list[f].names[n] \o << " " >>
                         \o ExprString(list[f].type)], sComma)], sComma)

Grouped(list) ==
  Join([f \in 1..Len(list) |->
          IF list[f].names = << >> THEN ExprString(list[f].type)
          ELSE Join(list[f].names, sComma) \o << " " >>
                 \o ExprString(list[f].type)], sComma)

\* C15: the parameter list of a printed signature shows every declared
\* parameter with its type, in declaration order and comma-separated, each
\* name of a grouped parameter included; without parameters it is "()".
C15_ParameterList ==
  \A i \in 1..Len(out) :
    \A d \in AllFuncDecls :
      IsFuncLine(i, d) =>
        LET sig == Sig(out[i])
        IN  /\ HasPrefix(sig, sFunc \o d.name \o << "(" >>)
            /\ ParamPart(sig) \in { PerName(d.type.params),
                                     Grouped(d.type.params) }

\* The type specs of the files of the file system.
AllTypeSpecs == UNION { TypeSpecs(f) : f \in fs }

\* Line i of the output is the line of type spec sp.
IsTypeLine(i, sp) ==
  /\ sp \in TypeSpecs(FileAt(fs, out[i].file))
  /\ out[i].pos = sp.pos
  /\ Named(Sig(out[i]), sType, sp.name)

\* A struct type with at least one field, all fields named and none of a
\* struct or interface type.
IsFlatStruct(t) ==
  /\ t.k = "StructType"
  /\ t.fields # << >>
  /\ \A f \in 1..Len(t.fields) :
       /\ t.fields[f].names # << >>
       /\ t.fields[f].type.k \notin { "StructType", "InterfaceType" }

\* The fields of a struct, one "name type" per field name, in order.
RECURSIVE FieldItems(_)
FieldItems(fields) ==
  IF fields = << >> THEN << >>
  ELSE [n \in 1..Len(fields[1].names) |->
          fields[1].names[n] \o << " " >> \o ExprString(fields[1].type)]
         \o FieldItems(Tail(fields))

\* C16: a struct type with N named fields of non-struct, non-interface types
\* is printed as struct { f1 T1; ...; fN TN }: one item per field name, in
\* declaration order, joined by N-1 semicolons.
C16_StructFields ==
  \A i \in 1..Len(out) :
    \A sp \in AllTypeSpecs :
      (IsTypeLine(i, sp) /\ IsFlatStruct(sp.type))
        => LET items == FieldItems(sp.type.fields)
           IN  /\ Sig(out[i]) = sType \o sp.name \o << " " >> \o sStructOpen
                                  \o Join(items, sSemi) \o sClose
               /\ Len(Split(Sig(out[i]), ";")) = Len(items)

\* A map composite literal, and its elements as they stand in the source:
\* "key: value", comma-separated, in order.
IsMapLiteral(e) == e.k = "CompositeLit" /\ e.type.k = "MapType"

SourceElements(e) ==
  Join([n \in 1..Len(e.elts) |->
          ExprString(e.elts[n].key) \o << ":", " " >>
            \o ExprString(e.elts[n].value)], sComma)

\* C17: a map literal value with n >= 0 elements is printed as map[K]V{...}
\* holding exactly the n elements of the source as "key: value", in order.
C17_MapLiteralElements ==
  \A i \in 1..Len(out) :
    \A sp \in AllValueSpecs :
      \A n \in 1..Len(sp.names) :
        ( /\ IsLineOf(i, sp, n)
          /\ n <= Len(sp.values)
          /\ IsMapLiteral(sp.values[n]) )
          => HasSuffix(Sig(out[i]),
                       sEq \o ExprString(sp.values[n].type) \o << "{" >>
                         \o SourceElements(sp.values[n]) \o << "}" >>)

\* The directory a path argument stands for, and whether it is one.
ArgDir(a) == Abs(BasePath(a), workDir)

IsDirArg(a) == IsDir(fs, ArgDir(a))

\* The file is located directly in the directory, not in a subdirectory.
DirectlyIn(dir, p) ==
  /\ HasPrefix(p, dir \o << "/" >>)
  /\ ~Contains(SubSeq(p, Len(dir) + 2, Len(p)), << "/" >>)

\* The file is in the directory or below it, has one of the extensions and
\* no exclude suffix.
Matching(dir, p) ==
  /\ HasPrefix(p, dir \o << "/" >>)
  /\ HasAnySuffix(p, Extensions(fileExtensions))
  /\ ~HasAnySuffix(p, Excludes(excludeSuffixes))

\* The directory scan of the current path argument has processed its last
\* file.
ScanComplete ==
  /\ pc = "files" /\ filei > Len(files)
  /\ argi \in 1..Len(args)

SingleReturned(k) ==
  /\ k \in 1..Len(args)
  /\ IsFile(fs, ArgDir(args[k]))
  /\ \/ argi > k
     \/ argi = k /\ pc \in { "fail", "exit" }

\* No configured extension matches the file name.
Unsupported(p) == ~HasAnySuffix(p, Extensions(fileExtensions))

\* C19 as stated: a single regular file that matches no configured
\* extension gets the unsupported-extension error naming it, and nothing is
\* printed for it, under every exclude setting.
C19_UnsupportedAlwaysError ==
  \A k \in 1..Len(args) :
    (SingleReturned(k) /\ Unsupported(ArgDir(args[k])))
      => /\ argi = k
         /\ err = ExtensionErr(ArgDir(args[k]))
         /\ \A i \in 1..Len(out) : out[i].arg # k

\* C19 amended: the exclude suffixes are tested first.  A single file that
\* matches no configured extension is passed over without an error when an
\* exclude suffix matches it (the empty exclude setting matches every file),
\* and gets the unsupported-extension error otherwise; nothing is printed
\* for it in either case.
C19_UnsupportedUnlessExcluded ==
  \A k \in 1..Len(args) :
    (SingleReturned(k) /\ Unsupported(ArgDir(args[k])))
      => /\ \A i \in 1..Len(out) : out[i].arg # k
         /\ IF HasAnySuffix(ArgDir(args[k]), Excludes(excludeSuffixes))
              THEN argi > k /\ err = NoErr
              ELSE argi = k /\ err = ExtensionErr(ArgDir(args[k]))

\* C19 witness: under an exclude setting other than the default, a single
\* file without a configured extension has got the error.
C19_Witness ==
  /\ pc = "exit"
  /\ err.kind = "extension"
  /\ excludeSuffixes # DefaultExclude
  /\ SingleReturned(argi)
  /\ Unsupported(ArgDir(args[argi]))

(***************************************************************************)
(* The output as a function of the files and the configuration.            *)
(***************************************************************************)
\* The positions of a set in increasing order.
RECURSIVE Ascending(_)
Ascending(S) ==
  IF S = { } THEN << >>
  ELSE LET m == CHOOSE x \in S : \A y \in S : x <= y
       IN  << m >> \o Ascending(S \ { m })

\* The paths of a set in increasing order of display path.
RECURSIVE ByDisplayPath(_)
ByDisplayPath(S) ==
  IF S = { } THEN << >>
  ELSE LET m == CHOOSE x \in S :
                  \A y \in S : ~StrLess(RelPath(y, workDir),
                                        RelPath(x, workDir))
       IN  << m >> \o ByDisplayPath(S \ { m })

\* The map processFile has built after all the declarations of a file.
RECURSIVE DeclMap(_, _, _)
DeclMap(map, decls, rel) ==
  IF decls = << >> THEN [panic |-> FALSE, map |-> map]
  ELSE LET r == processDecl(map, decls[1], rel, includePrivate,
                            maxValueLength)
       IN  IF r.panic THEN r ELSE DeclMap(r.map, Tail(decls), rel)

\* The lines of one file for path argument k, and whether processFile
\* returned nil.
FileLines(p, k) ==
  LET f == FileAt(fs, p)
      r == DeclMap(EmptyMap, f.decls, RelPath(p, workDir))
      order == Ascending(DOMAIN r.map)
  IN  IF ~f.ok \/ r.panic THEN [ok |-> FALSE, lines |-> << >>]
      ELSE [ok |-> TRUE,
            lines |-> [n \in 1..Len(order) |->
                         [text |-> r.map[order[n]], file |-> p,
                          pos |-> order[n], arg |-> k]]]

\* The lines of a list of files, up to the first file that fails.
RECURSIVE FilesLines(_, _)
FilesLines(list, k) ==
  IF list = << >> THEN [ok |-> TRUE, lines |-> << >>]
  ELSE LET h == FileLines(list[1], k)
       IN  IF ~h.ok THEN h
           ELSE LET t == FilesLines(Tail(list), k)
                IN  [ok |-> t.ok, lines |-> h.lines \o t.lines]

\* The lines of path argument k.
ArgLines(k) ==
  LET p == ArgDir(args[k])
  IN  IF IsDir(fs, p)
        THEN FilesLines(ByDisplayPath({ f.path : f \in { g \in fs :
                                          Matching(p, g.path) } }), k)
      ELSE IF ~IsFile(fs, p) THEN [ok |-> FALSE, lines |-> << >>]
      ELSE IF HasAnySuffix(p, Excludes(excludeSuffixes))
        THEN [ok |-> TRUE, lines |-> << >>]
      ELSE IF Unsupported(p) THEN [ok |-> FALSE, lines |-> << >>]
      ELSE FileLines(p, k)

\* The lines of the path arguments from k on, up to the first that fails.
RECURSIVE RunLines(_)
RunLines(k) ==
  IF k > Len(args) THEN << >>
  ELSE LET a == ArgLines(k)
       IN  IF a.ok THEN a.lines \o RunLines(k + 1) ELSE a.lines

\* C20: the output is a function of the files and the configuration:
\* while a file is printed the output is a prefix of, and at the end of the
\* run it is, the one sequence of lines they determine, whatever orders the
\* map iteration and the directory walk took.
C20_OutputDetermined ==
  pc \in { "print", "exit" } =>
    LET lines == RunLines(1)
    IN  /\ Len(out) <= Len(lines)
        /\ out = SubSeq(lines, 1, Len(out))
        /\ pc = "exit" => out = lines

\* C20 witness: a run has ended whose output has several lines of one file
\* and lines of several files of one directory scan.
C20_Witness ==
  /\ pc = "exit"
  /\ \E i, j \in 1..Len(out) :
       i # j /\ out[i].file = out[j].file /\ out[i].arg = out[j].arg
  /\ \E i, j \in 1..Len(out) :
       out[i].file # out[j].file /\ out[i].arg = out[j].arg

(***************************************************************************)
(* File scope.                                                             *)
(***************************************************************************)
\* The specs of the declarations nested in the func bodies of a file, and
\* the names they declare, each with its keyword in the output.
NestedSpecs(f) ==
  UNION { UNION { { d.body[j].specs[m] : m \in 1..Len(d.body[j].specs) } :
                    j \in 1..Len(d.body) } : d \in FuncDecls(f) }

NestedDeclared(f) ==
  { [kw |-> sType, name |-> sp.name] :
      sp \in { x \in NestedSpecs(f) : x.k = "TypeSpec" } }
    \cup UNION { { [kw |-> sVar, name |-> sp.names[i]] :
                     i \in 1..Len(sp.names) } :
                   sp \in { x \in NestedSpecs(f) : x.k = "ValueSpec" } }

\* The positions of the declarations of a file at file scope.
TopPositions(f) ==
  { d.pos : d \in FuncDecls(f) } \cup { sp.pos : sp \in Specs(f) }

\* C21: every printed line stands at the position of a declaration at file
\* scope; no line stands at the position of, or names, a var, const or type
\* declared inside a func body, with includePrivate set or unset.
C21_FileScopeOnly ==
  \A i \in 1..Len(out) :
    LET f == FileAt(fs, out[i].file)
    IN  /\ out[i].pos \in TopPositions(f)
        /\ \A sp \in NestedSpecs(f) : out[i].pos # sp.pos
        /\ \A D \in NestedDeclared(f) : ~Named(Sig(out[i]), D.kw, D.name)

\* C21 witness: with includePrivate set, a file whose func has declarations
\* in its body has been printed, the line of the func included.
C21_Witness ==
  /\ FilePrinted
  /\ includePrivate
  /\ NestedSpecs(CurFile) # { }
  /\ \E d \in FuncDecls(CurFile) : d.body # << >> /\ HasLine(sFunc, d.name)

\* C22: under every maxValueLength >= 0 formatValue returns a string for
\* every value: no run ends in the panic of an out-of-range slice.
C22_FormatValueTotal ==
  maxValueLength >= 0 => ~(pc = "exit" /\ exitCode = 2)

\* C23: every line printed for a name of a var/const spec with an explicit
\* type carries exactly that type, whatever the name and the value are.
C23_ExplicitTypeWins ==
  \A i \in 1..Len(out) :
    \A sp \in AllValueSpecs :
      \A n \in 1..Len(sp.names) :
        (IsLineOf(i, sp, n) /\ sp.type.k # "nil")
          => HasType(Sig(out[i]), sp.names[n], ExprString(sp.type))

\* A value no inference rule applies to: an identifier other than true,
\* false and iota, or a call of a function other than make.
NoRule(e) ==
  \/ e.k = "Ident" /\ e.name \notin { sTrue, sFalse, sIota }
  \/ /\ e.k = "CallExpr"
     /\ e.fun.k = "Ident"
     /\ e.fun.name # << "m", "a", "k", "e" >>

\* C24: for a value no inference rule applies to, inferType returns the
\* empty string, and the line of a name declared with such a value and
\* without an explicit type has no type: it reads "var <name> = <value>".
C24_NoRuleNoType ==
  \A i \in 1..Len(out) :
    \A sp \in AllValueSpecs :
      \A n \in 1..Len(sp.names) :
        ( /\ IsLineOf(i, sp, n)
          /\ sp.type.k = "nil"
          /\ n <= Len(sp.values)
          /\ NoRule(sp.values[n]) )
          => /\ inferType(sp.values[n]) = << >>
             /\ HasPrefix(Sig(out[i]), sVar \o sp.names[n] \o sEq)

\* The const groups of the files of the file system.
AllConstDecls == { d \in AllValueDecls : d.tok = "const" }

\* C25: the line of a const without an explicit type whose value is iota,
\* no earlier spec of its group having an explicit type, carries the type
\* int.
C25_IotaIsInt ==
  \A i \in 1..Len(out) :
    \A d \in AllConstDecls :
      \A j \in 1..Len(d.specs) :
        \A n \in 1..Len(d.specs[j].names) :
          ( /\ IsLineOf(i, d.specs[j], n)
            /\ d.specs[j].type.k = "nil"
            /\ n <= Len(d.specs[j].values)
            /\ d.specs[j].values[n] = Ident(sIota)
            /\ TypedBefore(d, j) = { } )
            => HasType(Sig(out[i]), d.specs[j].names[n], sInt)

\* The zero-based offset of the n-th name of spec j within group d: the
\* number of names the group declares before it.
RECURSIVE NamesBefore(_, _)
NamesBefore(d, j) ==
  IF j <= 1 THEN 0
  ELSE Len(d.specs[j - 1].names) + NamesBefore(d, j - 1)

Offset(d, j, n) == NamesBefore(d, j) + n - 1

\* Some spec of group d before index j has the value iota.
FollowsIota(d, j) ==
  \E m \in 1..(j - 1) :
    \E v \in 1..Len(d.specs[m].values) : d.specs[m].values[v] = Ident(sIota)

\* C26: the line of a const name without a value and without a type that
\* follows an iota-valued constant of its group ends with " = <offset>", its
\* zero-based offset within the group.
C26_SyntheticOffset ==
  \A i \in 1..Len(out) :
    \A d \in AllConstDecls :
      \A j \in 1..Len(d.specs) :
        \A n \in 1..Len(d.specs[j].names) :
          ( /\ IsLineOf(i, d.specs[j], n)
            /\ d.specs[j].type.k = "nil"
            /\ d.specs[j].values = << >>
            /\ FollowsIota(d, j) )
            => HasSuffix(Sig(out[i]), sEq \o Itoa(Offset(d, j, n)))

C28_EmptyExcludeKeepsAll ==
  excludeSuffixes = << >> =>
    /\ ScanComplete =>
         \A f \in fs :
           ( /\ HasPrefix(f.path, ArgDir(args[argi]) \o << "/" >>)
             /\ ~Unsupported(f.path)
             /\ Emits(f.path) )
             => Processed(f.path)
    /\ \A k \in 1..Len(args) :
         ( /\ SingleReturned(k)
           /\ ~Unsupported(ArgDir(args[k]))
           /\ Emits(ArgDir(args[k])) )
           => \E i \in 1..Len(out) : out[i].arg = k

\* The files of the scan of the current path in sorted order, the indices
\* of those that do not parse, and the first of them.
ScanSorted == ByDisplayPath(ScanFiles)

ScanBad == { n \in 1..Len(ScanSorted) : ~FileAt(fs, ScanSorted[n]).ok }

FirstBad == CHOOSE n \in ScanBad : \A m \in ScanBad : n <= m

\* The lines printed for the current path argument.
IsOfArg(l) == l.arg = argi

ArgOut == SelectSeq(out, IsOfArg)

\* C29: when a directory scan ended on a parse error, the error is the one
\* of the first file in sorted order that does not parse, the lines printed
\* for the path argument are exactly the lines of the files sorted before
\* that file, and no file sorted after it has been processed.
C29_ScanFailFast ==
  ScanFailed =>
    /\ ScanBad # { }
    /\ err = SyntaxErr(ScanSorted[FirstBad])
    /\ ArgOut = FilesLines(SubSeq(ScanSorted, 1, FirstBad - 1), argi).lines
    /\ \A n \in (FirstBad + 1)..Len(ScanSorted) : ~Processed(ScanSorted[n])

\* C29 witness: a scan ended on the parse error of its third file, after
\* the lines of the two files sorted before it.
C29_Witness ==
  /\ ScanFailed
  /\ ScanBad # { }
  /\ FirstBad >= 3
  /\ Processed(ScanSorted[1])
  /\ Processed(ScanSorted[2])

\* C30: no line is ever printed for a file that does not parse; when a
\* call of processFile ended on a parse error, the error is that file's and
\* the call has printed nothing, whatever the file holds before the error.
C30_AllOrNothing ==
  /\ \A i \in 1..Len(out) : FileAt(fs, out[i].file).ok
  /\ (pc \in { "fail", "exit" } /\ err.kind = "syntax") =>
       /\ err = SyntaxErr(filename)
       /\ ~CurFile.ok
       /\ CallLines = { }

\* C30 witness: a run ended on the parse error of a file that holds a valid
\* exported declaration before the error.
C30_Witness ==
  /\ pc = "exit"
  /\ err.kind = "syntax"
  /\ \E d \in FuncDecls(CurFile) : IsExported(d.name)

====
